---- MODULE Spec2Model ----
(***************************************************************************)
(* Model of get-rust (src/src/main.rs): the TargetTriple identifier        *)
(* (str, new, from_target_triple, to_target_triple, is_valid,              *)
(* get_with_no_rust_installed) and the install pipeline install_rust as    *)
(* driven by main.                                                         *)
(*                                                                         *)
(* Rust Strings are TLA+ strings; push_str is \o, a character of a string  *)
(* is SubSeq(s, i, i).  Option<String> is a sequence of length 0 (None) or *)
(* 1 (Some(v)).                                                            *)
(***************************************************************************)
EXTENDS Integers, Sequences, FiniteSets, TLC

VARIABLES
    input,      \* the argument(s) of the constructor under way / the host's compiled-in facts
    t,          \* the TargetTriple once constructed
    rendered,   \* the String last returned by str / to_target_triple
    valid,      \* the value last returned by is_valid
    pc,         \* position of the run
    log,        \* every message handed to pb.set_message, in order
    finished,   \* pb.finish() has been called
    response,   \* outcome of reqwest::get(..).await
    body,       \* outcome of response.bytes().await
    unpackRes,  \* outcome of archive.unpack(..)
    spawnRes,   \* outcome of Command::new(..).spawn()
    fetched,    \* the URLs requested, in order
    unpacks,    \* the destinations handed to archive.unpack, in order
    dirs,       \* the directories that exist because of this run
    children    \* the commands started as child processes, in order

tripleVars == <<input, t, rendered, valid>>
pipeVars == <<log, finished, response, body, unpackRes, spawnRes, fetched, unpacks, dirs, children>>
vars == <<input, t, rendered, valid, pc, log, finished, response, body, unpackRes,
          spawnRes, fetched, unpacks, dirs, children>>

-----------------------------------------------------------------------------
(* Bounds of the explored inputs *)

\* longest string handed to from_target_triple (besides the worked example)
MaxLen == 5
\* longest field value handed to new when rendering
MaxFieldLen == 2

-----------------------------------------------------------------------------
(* Option<String> *)

None == <<>>
Some(v) == <<v>>
IsSome(o) == Len(o) = 1
Unwrap(o) == o[1]

-----------------------------------------------------------------------------
(* The enumerations *)

LIST_ARCHS ==
    << "i386", "i586", "i686", "x86_64", "arm", "armv7", "armv7s", "aarch64",
       "mips", "mipsel", "mips64", "mips64el", "powerpc", "powerpc64",
       "powerpc64le", "riscv64gc", "s390x", "loongarch64" >>

LIST_OSES ==
    << "pc-windows", "unknown-linux", "apple-darwin", "unknown-netbsd",
       "apple-ios", "linux", "rumprun-netbsd", "unknown-freebsd",
       "unknown-illumos" >>

LIST_ENVS ==
    << "gnu", "gnux32", "msvc", "gnueabi", "gnueabihf", "gnuabi64",
       "androideabi", "android", "musl" >>

\* slice::contains: a linear scan of the list
contains(list, x) == \E i \in 1..Len(list) : list[i] = x

-----------------------------------------------------------------------------
(* TargetTriple *)

\* TargetTriple::new
new(arch, os, env) == [arch |-> arch, os |-> os, env |-> env]

\* TargetTriple::str
str(self) ==
    LET t0 == ""
        t1 == IF IsSome(self.arch) THEN t0 \o Unwrap(self.arch) ELSE t0
        t2 == IF IsSome(self.os) THEN (t1 \o "-") \o Unwrap(self.os) ELSE t1
        t3 == IF IsSome(self.env) THEN (t2 \o "-") \o Unwrap(self.env) ELSE t2
    IN  t3

\* TargetTriple::to_target_triple
to_target_triple(self) ==
    LET t0 == ""
        t1 == IF IsSome(self.arch) THEN t0 \o Unwrap(self.arch) ELSE t0
        t2 == IF IsSome(self.os) THEN (t1 \o "-") \o Unwrap(self.os) ELSE t1
        t3 == IF IsSome(self.env) THEN (t2 \o "-") \o Unwrap(self.env) ELSE t2
    IN  t3

\* str::split('-'): the segments between hyphens, in order; cur is the
\* segment being collected and i the next character to look at
RECURSIVE split(_, _, _)
split(s, i, cur) ==
    IF i > Len(s) THEN << cur >>
    ELSE IF SubSeq(s, i, i) = "-" THEN << cur >> \o split(s, i + 1, "")
    ELSE split(s, i + 1, cur \o SubSeq(s, i, i))

\* Iterator::next().map(|s| s.to_string()) for the k-th call on the split
next(parts, k) == IF k <= Len(parts) THEN Some(parts[k]) ELSE None

\* from_target_triple taking the last segment, not the third, as environment
from_target_triple_last(triple) ==
    LET parts == split(triple, 1, "")
    IN  [arch |-> next(parts, 1), os |-> next(parts, 2),
         env |-> IF Len(parts) >= 3 THEN Some(parts[Len(parts)]) ELSE None]

\* TargetTriple::from_target_triple
from_target_triple(triple) ==
    LET parts == split(triple, 1, "")
    IN  [arch |-> next(parts, 1), os |-> next(parts, 2), env |-> next(parts, 3)]

\* is_valid looking the environment up in the OS list
is_valid_env_in_oses(self) ==
    IF IsSome(self.arch) /\ ~contains(LIST_ARCHS, Unwrap(self.arch)) THEN FALSE
    ELSE IF IsSome(self.os) /\ ~contains(LIST_OSES, Unwrap(self.os)) THEN FALSE
    ELSE IF IsSome(self.env) /\ ~contains(LIST_OSES, Unwrap(self.env)) THEN FALSE
    ELSE TRUE

\* TargetTriple::is_valid
is_valid(self) ==
    IF IsSome(self.arch) /\ ~contains(LIST_ARCHS, Unwrap(self.arch)) THEN FALSE
    ELSE IF IsSome(self.os) /\ ~contains(LIST_OSES, Unwrap(self.os)) THEN FALSE
    ELSE IF IsSome(self.env) /\ ~contains(LIST_ENVS, Unwrap(self.env)) THEN FALSE
    ELSE TRUE

\* the first match of get_with_no_rust_installed: OS name to OS family
os_matching(os, rumprun) ==
    CASE os = "linux" -> "unknown-linux"
      [] os = "macos" -> "apple-darwin"
      [] os = "windows" -> "pc-windows"
      [] os = "netbsd" -> IF rumprun THEN "rumprun-netbsd" ELSE "unknown-netbsd"
      [] os = "ios" -> "apple-ios"
      [] os = "freebsd" -> "unknown-freebsd"
      [] os = "illumos" -> "unknown-illumos"
      [] OTHER -> "unknown"

\* the inner match without the hard-float arms
linux_env_soft_float(arch) ==
    CASE arch = "arm" -> "gnueabi"
      [] arch = "armv7" -> "gnueabi"
      [] arch = "armv7s" -> "gnueabi"
      [] arch = "mips64" -> "gnuabi64"
      [] arch = "mips64el" -> "gnuabi64"
      [] OTHER -> "gnu"

\* the inner match of get_with_no_rust_installed: architecture to environment on linux
linux_env(arch) ==
    CASE arch = "x86_64" -> "gnu"
      [] arch = "x86" -> "gnu"
      [] arch = "aarch64" -> "gnu"
      [] arch = "arm" -> "gnueabi"
      [] arch = "armv7" -> "gnueabihf"
      [] arch = "armv7s" -> "gnueabihf"
      [] arch = "mips" -> "gnu"
      [] arch = "mipsel" -> "gnu"
      [] arch = "mips64" -> "gnuabi64"
      [] arch = "mips64el" -> "gnuabi64"
      [] arch = "powerpc" -> "gnu"
      [] arch = "powerpc64" -> "gnu"
      [] arch = "powerpc64le" -> "gnu"
      [] arch = "riscv64gc" -> "gnu"
      [] arch = "s390x" -> "gnu"
      [] arch = "loongarch64" -> "gnu"
      [] OTHER -> "gnu"

\* the second match without the windows arm
env_matching_no_windows(os, arch) ==
    CASE os = "linux" -> linux_env(arch)
      [] os \in { "solaris", "macos", "netbsd", "ios", "freebsd", "illumos" } -> "gnu"
      [] OTHER -> "failed"

\* the second match of get_with_no_rust_installed: OS name to environment
env_matching(os, arch) ==
    CASE os = "windows" -> "msvc"
      [] os = "linux" -> linux_env(arch)
      [] os = "solaris" -> "gnu"
      [] os = "macos" -> "gnu"
      [] os = "netbsd" -> "gnu"
      [] os = "ios" -> "gnu"
      [] os = "freebsd" -> "gnu"
      [] os = "illumos" -> "gnu"
      [] OTHER -> "failed"

\* TargetTriple::get_with_no_rust_installed; host.arch and host.os are
\* std::env::consts::ARCH and OS, host.rumprun is cfg!(target_os = "rumprun")
get_with_no_rust_installed(host) ==
    new(Some(host.arch), Some(os_matching(host.os, host.rumprun)),
        Some(env_matching(host.os, host.arch)))

-----------------------------------------------------------------------------
(* Inputs *)

ListSet(list) == { list[i] : i \in 1..Len(list) }

RECURSIVE StringsOfLen(_, _)
StringsOfLen(alphabet, n) ==
    IF n = 0 THEN { "" }
    ELSE { s \o c : s \in StringsOfLen(alphabet, n - 1), c \in alphabet }

StringsUpTo(alphabet, n) == UNION { StringsOfLen(alphabet, k) : k \in 0..n }

\* the worked example of the round-trip law
ExampleTriple == "x86_64-unknown-linux-gnu"

\* strings handed to from_target_triple
TripleStrings == StringsUpTo({ "a", "b", "-" }, MaxLen) \cup { ExampleTriple }

\* non-empty hyphen-free field values, and a field that may be absent
FieldValues == StringsUpTo({ "a", "b" }, MaxFieldLen) \ { "" }
FieldOptions == { None } \cup { Some(v) : v \in FieldValues }

\* field values for validation: every enumerated value of every position,
\* and values of no enumeration
OutsideValues == { "x86", "unknown", "failed", "" }
EnumValues == ListSet(LIST_ARCHS) \cup ListSet(LIST_OSES) \cup ListSet(LIST_ENVS)
ValidationOptions == { None } \cup { Some(v) : v \in EnumValues \cup OutsideValues }

\* values of std::env::consts::ARCH and std::env::consts::OS
HostArchs == ListSet(LIST_ARCHS) \cup { "x86", "riscv64", "sparc64" }
HostOses == { "linux", "macos", "windows", "netbsd", "ios", "freebsd", "illumos",
              "solaris", "android", "openbsd", "dragonfly" }
HostFacts == [arch : HostArchs, os : HostOses, rumprun : BOOLEAN]

-----------------------------------------------------------------------------
(* State before anything has run *)

NoTriple == "none"

Start(in, at) ==
    /\ input = in
    /\ pc = at
    /\ t = NoTriple
    /\ rendered = None
    /\ valid = None
    /\ log = << >>
    /\ finished = FALSE
    /\ response = "none"
    /\ body = "none"
    /\ unpackRes = "none"
    /\ spawnRes = "none"
    /\ fetched = << >>
    /\ unpacks = << >>
    /\ dirs = { }
    /\ children = << >>

-----------------------------------------------------------------------------
(* Calls of the TargetTriple functions *)

New ==
    /\ pc = "new"
    /\ t' = new(input[1], input[2], input[3])
    /\ pc' = "built"
    /\ UNCHANGED <<input, rendered, valid>>
    /\ UNCHANGED pipeVars

FromTargetTriple ==
    /\ pc = "from_target_triple"
    /\ t' = from_target_triple(input)
    /\ pc' = "built"
    /\ UNCHANGED <<input, rendered, valid>>
    /\ UNCHANGED pipeVars

GetWithNoRustInstalled ==
    /\ pc = "get_with_no_rust_installed"
    /\ t' = get_with_no_rust_installed(input)
    /\ pc' = "built"
    /\ UNCHANGED <<input, rendered, valid>>
    /\ UNCHANGED pipeVars

Str ==
    /\ pc = "built"
    /\ rendered' = Some(str(t))
    /\ pc' = "str"
    /\ UNCHANGED <<input, t, valid>>
    /\ UNCHANGED pipeVars

ToTargetTriple ==
    /\ pc = "built"
    /\ rendered' = Some(to_target_triple(t))
    /\ pc' = "to_target_triple"
    /\ UNCHANGED <<input, t, valid>>
    /\ UNCHANGED pipeVars

IsValid ==
    /\ pc = "built"
    /\ valid' = Some(is_valid(t))
    /\ pc' = "is_valid"
    /\ UNCHANGED <<input, t, rendered>>
    /\ UNCHANGED pipeVars

\* new followed by str or to_target_triple
InitStr == \E a \in FieldOptions, o \in FieldOptions, e \in FieldOptions :
               Start(<<a, o, e>>, "new")
NextStr == New \/ Str \/ ToTargetTriple
SpecStr == InitStr /\ [][NextStr]_vars

\* from_target_triple followed by str
InitParse == \E s \in TripleStrings : Start(s, "from_target_triple")
NextParse == FromTargetTriple \/ Str
SpecParse == InitParse /\ [][NextParse]_vars

\* new followed by is_valid
InitValid == \E a \in ValidationOptions, o \in ValidationOptions, e \in ValidationOptions :
                 Start(<<a, o, e>>, "new")
NextValid == New \/ IsValid
SpecValid == InitValid /\ [][NextValid]_vars

\* get_with_no_rust_installed followed by is_valid
InitHost == \E h \in HostFacts : Start(h, "get_with_no_rust_installed")
NextHost == GetWithNoRustInstalled \/ IsValid
SpecHost == InitHost /\ [][NextHost]_vars

-----------------------------------------------------------------------------
(* The install pipeline: main and install_rust *)

\* let version = "1.76.0".to_string() in main
version == "1.76.0"

\* format!("https://static.rust-lang.org/dist/rust-{}-{}.tar.gz", version, target)
download_url(ver, target) ==
    ((("https://static.rust-lang.org/dist/rust-" \o ver) \o "-") \o target) \o ".tar.gz"

\* format!("rust-{}-{}", version, triple.str())
unpack_dir(ver, triple) == (("rust-" \o ver) \o "-") \o str(triple)

\* format!("rust-{}-{}/rust-{0}-{1}/install.sh", version, triple.str())
install_sh(ver, triple) ==
    ((((((("rust-" \o ver) \o "-") \o str(triple)) \o "/rust-") \o ver) \o "-")
        \o str(triple)) \o "/install.sh"

\* pb.set_message
set_message(m) == log' = Append(log, m)

\* main up to the call of install_rust: detect the host, print its triple
Main ==
    /\ pc = "main"
    /\ t' = get_with_no_rust_installed(input)
    /\ rendered' = Some(str(t'))
    /\ pc' = "install_rust"
    /\ UNCHANGED <<input, valid>>
    /\ UNCHANGED pipeVars

\* install_rust up to the fetch: render the target, build the spinner
InstallRust ==
    /\ pc = "install_rust"
    /\ rendered' = Some(str(t))
    /\ set_message("Downloading...")
    /\ pc' = "get"
    /\ UNCHANGED <<input, t, valid>>
    /\ UNCHANGED <<finished, response, body, unpackRes, spawnRes, fetched, unpacks,
                   dirs, children>>

\* reqwest::get(&download_url).await and the test of response.is_err().
\* get is Err only when no response was obtained; a response of any status
\* code is Ok, and nothing here looks at the status.
Get ==
    /\ pc = "get"
    /\ fetched' = Append(fetched, download_url(version, Unwrap(rendered)))
    /\ \E r \in { "err", "ok_2xx", "ok_non_2xx" } :
        /\ response' = r
        /\ IF r = "err"
           THEN /\ set_message("Failed to download")
                /\ finished' = TRUE
                /\ pc' = "returned"
           ELSE /\ set_message("Unwrapping...")
                /\ finished' = finished
                /\ pc' = "bytes"
    /\ UNCHANGED tripleVars
    /\ UNCHANGED <<body, unpackRes, spawnRes, unpacks, dirs, children>>

\* response.unwrap().bytes().await.unwrap() and the GzDecoder over the bytes;
\* reading the body can fail, and the unwrap then panics
Bytes ==
    /\ pc = "bytes"
    /\ \E b \in { "ok", "err" } :
        /\ body' = b
        /\ IF b = "ok"
           THEN /\ set_message("Extracting...")
                /\ pc' = "archive"
           ELSE /\ log' = log
                /\ pc' = "panicked"
    /\ UNCHANGED tripleVars
    /\ UNCHANGED <<finished, response, unpackRes, spawnRes, fetched, unpacks, dirs, children>>

\* tar::Archive::new(tar)
ArchiveNew ==
    /\ pc = "archive"
    /\ set_message("Unpacking...")
    /\ pc' = "unpack"
    /\ UNCHANGED tripleVars
    /\ UNCHANGED <<finished, response, body, unpackRes, spawnRes, fetched, unpacks,
                   dirs, children>>

\* unpack whose Result is dropped instead of unwrapped
Unpack_ResultIgnored ==
    /\ pc = "unpack"
    /\ unpacks' = Append(unpacks, unpack_dir(version, t))
    /\ \E u \in { "ok", "err" } :
        /\ unpackRes' = u
        /\ \E created \in BOOLEAN :
               dirs' = IF u = "ok" \/ created THEN dirs \cup { unpack_dir(version, t) } ELSE dirs
    /\ set_message("Running install.sh...")
    /\ pc' = "spawn"
    /\ UNCHANGED tripleVars
    /\ UNCHANGED <<finished, response, body, spawnRes, fetched, children>>

\* archive.unpack(dir).unwrap(): on Ok the directory holds the archive, on
\* Err the unwrap panics; a failed unpack may or may not have created the
\* directory before it failed
Unpack ==
    /\ pc = "unpack"
    /\ unpacks' = Append(unpacks, unpack_dir(version, t))
    /\ \E u \in { "ok", "err" } :
        /\ unpackRes' = u
        /\ IF u = "ok"
           THEN /\ dirs' = dirs \cup { unpack_dir(version, t) }
                /\ set_message("Running install.sh...")
                /\ pc' = "spawn"
           ELSE /\ \E partial \in BOOLEAN :
                      dirs' = IF partial THEN dirs \cup { unpack_dir(version, t) } ELSE dirs
                /\ log' = log
                /\ pc' = "panicked"
    /\ UNCHANGED tripleVars
    /\ UNCHANGED <<finished, response, body, spawnRes, fetched, children>>

\* spawn that removes the extraction directory when it fails
Spawn_RollsBack ==
    /\ pc = "spawn"
    /\ \E c \in { "ok", "err" } :
        /\ spawnRes' = c
        /\ IF c = "err"
           THEN /\ set_message("Failed to run install.sh")
                /\ children' = children
                /\ dirs' = dirs \ { unpack_dir(version, t) }
           ELSE /\ set_message("Done")
                /\ children' = Append(children, install_sh(version, t))
                /\ dirs' = dirs
    /\ finished' = TRUE
    /\ pc' = "returned"
    /\ UNCHANGED tripleVars
    /\ UNCHANGED <<response, body, unpackRes, fetched, unpacks>>

\* tokio::process::Command::new(install.sh).spawn() and the test of
\* command_res.is_err(); the child is not awaited
Spawn ==
    /\ pc = "spawn"
    /\ \E c \in { "ok", "err" } :
        /\ spawnRes' = c
        /\ IF c = "err"
           THEN /\ set_message("Failed to run install.sh")
                /\ children' = children
           ELSE /\ set_message("Done")
                /\ children' = Append(children, install_sh(version, t))
    /\ finished' = TRUE
    /\ pc' = "returned"
    /\ UNCHANGED tripleVars
    /\ UNCHANGED <<response, body, unpackRes, fetched, unpacks, dirs>>

Init == \E h \in HostFacts : Start(h, "main")
Next == Main \/ InstallRust \/ Get \/ Bytes \/ ArchiveNew \/ Unpack \/ Spawn
Spec == Init /\ [][Next]_vars

-----------------------------------------------------------------------------
(* Vocabulary of the properties *)

Last(q) == q[Len(q)]

\* the stage a progress message announces
StageOf(m) ==
    CASE m = "Downloading..." -> "Downloading"
      [] m = "Unwrapping..." -> "Downloading"
      [] m = "Extracting..." -> "Extracting"
      [] m = "Unpacking..." -> "Unpacking"
      [] m = "Running install.sh..." -> "Installing"
      [] m = "Done" -> "Done"
      [] m = "Failed to download" -> "Failed"
      [] m = "Failed to run install.sh" -> "Failed"

\* the stage the run is in
Stage == IF log = << >> THEN "Idle" ELSE StageOf(Last(log))

StageOrder == << "Idle", "Downloading", "Extracting", "Unpacking", "Installing", "Done" >>
Successor(s) == { StageOrder[i + 1] : i \in { j \in 1..(Len(StageOrder) - 1) : StageOrder[j] = s } }

TerminalMessages == { "Failed to download", "Failed to run install.sh", "Done" }
TerminalMessagesEmitted == { i \in 1..Len(log) : log[i] \in TerminalMessages }

Terminated == pc \in { "returned", "panicked" }

\* the download ended without a successful response fully read
DownloadFailed == response \in { "err", "ok_non_2xx" } \/ body = "err"

\* rust-<version>-<triple> of the run
ExtractionDir == "rust-1.76.0-" \o str(t)

\* the positions of the hyphens of s, ascending
HyphenPositions(s) ==
    SelectSeq([i \in 1..Len(s) |-> i], LAMBDA i : SubSeq(s, i, i) = "-")

\* the present fields in the order architecture, osFamily, environment
PresentFields(id) ==
    LET p(o) == IsSome(o)
    IN  SelectSeq(<< id.arch, id.os, id.env >>, p)

\* the values of q joined by single hyphens
RECURSIVE HyphenJoin(_)
HyphenJoin(q) ==
    IF Len(q) = 0 THEN ""
    ELSE IF Len(q) = 1 THEN Unwrap(q[1])
    ELSE (Unwrap(q[1]) \o "-") \o HyphenJoin(Tail(q))

InEnumeration(o, list) == IsSome(o) => Unwrap(o) \in ListSet(list)

\* the OS names whose family and environment are both enumerated
SupportedOses == { "linux", "macos", "windows", "netbsd", "ios", "freebsd", "illumos" }

\* the OS family table as the documentation gives it
ExpectedOsFamily(host) ==
    IF host.os = "linux" THEN "unknown-linux"
    ELSE IF host.os = "macos" THEN "apple-darwin"
    ELSE IF host.os = "windows" THEN "pc-windows"
    ELSE IF host.os = "netbsd" THEN (IF host.rumprun THEN "rumprun-netbsd" ELSE "unknown-netbsd")
    ELSE IF host.os = "ios" THEN "apple-ios"
    ELSE IF host.os = "freebsd" THEN "unknown-freebsd"
    ELSE IF host.os = "illumos" THEN "unknown-illumos"
    ELSE "unknown"

\* the environment table as the documentation gives it
ExpectedEnvironment(host) ==
    IF host.os = "linux"
    THEN IF host.arch = "arm" THEN "gnueabi"
         ELSE IF host.arch \in { "armv7", "armv7s" } THEN "gnueabihf"
         ELSE IF host.arch \in { "mips64", "mips64el" } THEN "gnuabi64"
         ELSE "gnu"
    ELSE IF host.os = "windows" THEN "msvc"
    ELSE IF host.os \in { "macos", "netbsd", "ios", "freebsd", "illumos", "solaris" } THEN "gnu"
    ELSE "failed"

-----------------------------------------------------------------------------
(* Properties *)

\* C1: whenever the download has ended in a transport-level failure or a
\* non-2xx response, the run has returned in Failed with the message "Failed
\* to download": it has not panicked and has not reached the unpack stage.
C1_DownloadFailureIsGraceful ==
    DownloadFailed =>
        /\ pc = "returned"
        /\ Stage = "Failed"
        /\ Last(log) = "Failed to download"
        /\ finished
        /\ unpacks = << >>

\* C2: once archive.unpack has failed the run has panicked: it is neither in
\* Failed nor in Done, no terminal message was set, the spinner was not
\* finished and no installer was started.
C2_UnpackFailureIsFatal ==
    unpackRes = "err" =>
        /\ pc = "panicked"
        /\ Stage = "Unpacking"
        /\ TerminalMessagesEmitted = { }
        /\ ~finished
        /\ spawnRes = "none"
        /\ children = << >>

C2_Witness == unpackRes = "err" /\ pc = "panicked" /\ response = "ok_2xx"

\* C3, state part: only the unpack stage creates a directory, and only
\* rust-<version>-<triple>; a failed fetch ends in Failed with no directory
\* and no child; a failed spawn after a successful unpack ends in Failed with
\* the directory in place.
C3_DirState ==
    /\ unpackRes = "none" => dirs = { }
    /\ pc # "main" => dirs \subseteq { ExtractionDir }
    /\ response = "err" =>
        /\ pc = "returned" /\ Stage = "Failed"
        /\ dirs = { } /\ unpacks = << >>
        /\ children = << >> /\ spawnRes = "none"
    /\ spawnRes = "err" =>
        /\ response # "err" /\ body = "ok" /\ unpackRes = "ok"
        /\ pc = "returned" /\ Stage = "Failed"
        /\ dirs = { ExtractionDir }
        /\ children = << >>

C4_Step ==
    /\ \/ Stage' = Stage
       \/ Stage' \in Successor(Stage)
       \/ /\ Stage \in { "Downloading", "Extracting", "Unpacking", "Installing" }
          /\ Stage' = "Failed"
    /\ Stage = "Failed" => UNCHANGED <<log, fetched, unpacks, dirs, children>>
    /\ Len(fetched') <= 1 /\ Len(unpacks') <= 1 /\ Len(children') <= 1
    /\ (response' = "err" \/ body' = "err" \/ unpackRes' = "err" \/ spawnRes' = "err")
           => Stage' = "Failed"

\* C4: the stages are entered strictly in the order Idle, Downloading,
\* Extracting, Unpacking, Installing, Done, none skipped or repeated, with
\* Failed absorbing and entered from whichever stage fails.
C4_StrictOrderWithFailedFromEveryStage == [][C4_Step]_vars

\* C5: every terminated run has emitted exactly one terminal outcome message
\* (download failed, failed to run install.sh, Done), as its last message,
\* and a successful spawn ends with Done.
C5_OneTerminalMessage ==
    Terminated =>
        /\ Cardinality(TerminalMessagesEmitted) = 1
        /\ Last(log) \in TerminalMessages
        /\ finished
        /\ spawnRes = "ok" => Last(log) = "Done"

\* C6: the rendered string is the present fields, in the order architecture,
\* osFamily, environment, joined by single hyphens: no leading, trailing or
\* doubled hyphen.
C6_RenderJoinsPresentFields ==
    pc \in { "str", "to_target_triple" } =>
        LET r == Unwrap(rendered)
        IN  /\ r = HyphenJoin(PresentFields(t))
            /\ Len(r) > 0 => (SubSeq(r, 1, 1) # "-" /\ SubSeq(r, Len(r), Len(r)) # "-")
            /\ \A i \in 1..(Len(r) - 1) : ~(SubSeq(r, i, i) = "-" /\ SubSeq(r, i + 1, i + 1) = "-")

\* C7: rendering a parsed string of exactly three segments gives the string
\* back; with more than three segments it gives the text before the third
\* hyphen, which differs from the string, and the fields are the first three
\* segments (x86_64-unknown-linux-gnu parses to x86_64, unknown, linux).
C7_RoundTrip ==
    pc = "str" =>
        LET h == HyphenPositions(input)
            r == Unwrap(rendered)
        IN  /\ Len(h) = 2 => r = input
            /\ Len(h) >= 3 =>
                /\ r = SubSeq(input, 1, h[3] - 1)
                /\ r # input
                /\ t.arch = Some(SubSeq(input, 1, h[1] - 1))
                /\ t.os = Some(SubSeq(input, h[1] + 1, h[2] - 1))
                /\ t.env = Some(SubSeq(input, h[2] + 1, h[3] - 1))
            /\ input = "x86_64-unknown-linux-gnu" =>
                t = [arch |-> Some("x86_64"), os |-> Some("unknown"), env |-> Some("linux")]

C7_Witness ==
    /\ pc = "str" /\ input = "x86_64-unknown-linux-gnu"
    /\ rendered = Some("x86_64-unknown-linux")

\* C8: is_valid is true exactly when every present field belongs to the
\* enumeration of its own position.
C8_ValidIffPresentFieldsEnumerated ==
    pc = "is_valid" =>
        Unwrap(valid) = ( /\ InEnumeration(t.arch, LIST_ARCHS)
                          /\ InEnumeration(t.os, LIST_OSES)
                          /\ InEnumeration(t.env, LIST_ENVS) )

C8_Witness ==
    /\ pc = "is_valid" /\ valid = Some(FALSE)
    /\ t = [arch |-> Some("x86_64"), os |-> Some("unknown-linux"), env |-> Some("linux")]

\* C9: the detected identifier has all three fields present: the host
\* architecture unchanged, the OS family of the table, the environment of
\* the table.
C9_DetectFollowsTables ==
    pc \in { "built", "is_valid" } =>
        /\ IsSome(t.arch) /\ IsSome(t.os) /\ IsSome(t.env)
        /\ Unwrap(t.arch) = input.arch
        /\ Unwrap(t.os) = ExpectedOsFamily(input)
        /\ Unwrap(t.env) = ExpectedEnvironment(input)
        /\ (input.os = "linux" /\ input.arch = "x86_64") =>
               t = [arch |-> Some("x86_64"), os |-> Some("unknown-linux"), env |-> Some("gnu")]

C9_Witness ==
    /\ pc = "built" /\ input.os = "linux" /\ input.arch = "armv7"
    /\ t = [arch |-> Some("armv7"), os |-> Some("unknown-linux"), env |-> Some("gnueabihf")]

\* C10: the detected identifier is valid exactly when the OS name is one of
\* linux, macos, windows, netbsd, ios, freebsd, illumos and the architecture
\* is enumerated; for those OS names the family and the environment are
\* always enumerated.
C10_DetectedValidIffSupported ==
    pc = "is_valid" =>
        /\ Unwrap(valid) = (input.os \in SupportedOses /\ input.arch \in ListSet(LIST_ARCHS))
        /\ input.os \in SupportedOses =>
               (Unwrap(t.os) \in ListSet(LIST_OSES) /\ Unwrap(t.env) \in ListSet(LIST_ENVS))

C10_Witness ==
    /\ pc = "is_valid" /\ input.os = "solaris" /\ input.arch = "x86_64"
    /\ valid = Some(FALSE)

====
